---- MODULE Spec2Model ----
(***************************************************************************)
(* Lunar lander descent physics: LanderPhysics.update (LanderPhysics.js),  *)
(* the turn-based stepOnce of ascii.js and the turn-based stepOnce of      *)
(* LunarLander.js with its touchdown solver interpolateTouchdown.          *)
(*                                                                         *)
(* JavaScript numbers are modelled as fixed-point integers:                *)
(*   altitude            centimetres            (1e-2 m)                   *)
(*   velocity            centimetres / second   (1e-2 m/s)                 *)
(*   acceleration        centimetres / second^2 (1e-2 m/s^2)               *)
(*   time, dt, tContact  milliseconds           (1e-3 s)                   *)
(*   burn, fuel          tenths of a burn unit  (1e-1 u)                   *)
(* Every product or quotient is rounded to the nearest grid point, as an   *)
(* IEEE operation rounds to the nearest double.  The thresholds 1e-8 and   *)
(* 1e-12 of the source are below the grid: "|x| < 1e-8" is "x = 0".        *)
(***************************************************************************)
EXTENDS Integers, Sequences, FiniteSets, TLC

VARIABLES impl, altitude, velocityDown, fuel, time, status, burn, params,
          call, updates, td

vars == <<impl, altitude, velocityDown, fuel, time, status, burn, params,
          call, updates, td>>

----------------------------------------------------------------------------
(* Bounds of the exploration *)

MaxSteps == 5
MaxHoldSteps == 52
MaxUpdates == 3

----------------------------------------------------------------------------
(* Fixed-point arithmetic *)

Abs(x) == IF x < 0 THEN -x ELSE x

Max(x, y) == IF x >= y THEN x ELSE y

Min(x, y) == IF x <= y THEN x ELSE y

\* n / d for d > 0, rounded to the nearest integer (half up)
RDiv(n, d) == (n + d \div 2) \div d

\* n / d for any d # 0, rounded to the nearest integer
RDivS(n, d) == IF d < 0 THEN RDiv(-n, -d) ELSE RDiv(n, d)

\* x * t for a time t >= 0 in milliseconds: the result keeps the unit of x
\* per second (velocity * time = altitude, acceleration * time = velocity)
MulT(x, t) == x * (t \div 1000) + RDiv(x * (t % 1000), 1000)

\* 0.5 * a * t * t in centimetres: a * t is exact in 1e-5 m/s, its product
\* with t is formed in 1e-5 m and halved
HalfATT(a, t) ==
    LET at == a * t
    IN  RDiv(at * (t \div 1000) + RDiv(at, 1000) * (t % 1000), 2000)

\* Math.round of a number given in tenths; the result is in tenths
MathRound(x) == ((x + 5) \div 10) * 10

\* parseInt(string, 10) of a decimal number given in tenths: truncation
\* toward zero; the result is in tenths
ParseInt(x) == IF x >= 0 THEN (x \div 10) * 10 ELSE -((-x \div 10) * 10)

\* Math.ceil(maxBurn * pct / 100), in tenths
CeilPct(maxBurn, pct) == ((maxBurn * pct + 999) \div 1000) * 10

RECURSIVE SqrtSearch(_, _, _)
SqrtSearch(n, lo, hi) ==
    IF hi - lo <= 1 THEN lo
    ELSE LET mid == (lo + hi) \div 2
         IN  IF mid * mid <= n THEN SqrtSearch(n, mid, hi)
                               ELSE SqrtSearch(n, lo, mid)

\* floor(sqrt(n)) for 0 <= n < 2^31
ISqrt(n) == SqrtSearch(n, 0, 46341)

\* one more decimal digit of a square root: s = floor(sqrt(n)), r = n - s*s
\* gives floor(sqrt(100 n)) and its remainder
SqrtDigit(sr) ==
    LET s == sr[1]
        r == sr[2]
        d == CHOOSE k \in 0..9 :
                /\ (20 * s + k) * k <= 100 * r
                /\ (k = 9 \/ (20 * s + k + 1) * (k + 1) > 100 * r)
    IN  <<10 * s + d, 100 * r - (20 * s + d) * d>>

----------------------------------------------------------------------------
(* Program constants *)

DEFAULTS ==
    [ dt               |-> 10000,
      g                |-> 162,
      aThrustMax       |-> 600,
      altitude0        |-> 150000,
      velocity0        |-> 5000,
      fuel0            |-> 12000,
      maxBurn          |-> 2000,
      landingSpeedSafe |-> 200 ]

\* mutant: clamp without its upper bound
clampLower(n, lo, hi) == Max(lo, n)

\* mutant: clamp without its lower bound
clampUpper(n, lo, hi) == Min(hi, n)

clamp(n, lo, hi) == Max(lo, Min(hi, n))

Terminal == {"landed", "crashed"}

\* the state a step starts from and the state it leaves
State(h, v, f, t, s) ==
    [altitude |-> h, velocityDown |-> v, fuel |-> f, time |-> t, status |-> s]

Cur == State(altitude, velocityDown, fuel, time, status)

NoCall == [op |-> "none", dt |-> 0, burn |-> 0, pre |-> State(0, 0, 0, 0, "flying")]

\* the arguments and the result of a call of interpolateTouchdown
Solve(h, v, a, dt, called, res) ==
    [h |-> h, v |-> v, a |-> a, dt |-> dt, called |-> called, res |-> res]

NoSolve == Solve(0, 0, 0, 0, FALSE, [found |-> FALSE, tContact |-> 0, vAtContact |-> 0])

----------------------------------------------------------------------------
(* ascii.js *)

\* quickHint() of ascii.js and of LunarLander.js, in tenths
quickHint(h, v, maxBurn) ==
    IF h < 20000 THEN CeilPct(maxBurn, 90)
    ELSE IF h < 50000 THEN CeilPct(maxBurn, 70)
    ELSE IF v > 4000 THEN CeilPct(maxBurn, 60)
    ELSE IF v > 2000 THEN CeilPct(maxBurn, 40)
    ELSE CeilPct(maxBurn, 20)

\* mutant: the boundary speed counts as a crash
ClassifyStrict(v, p) ==
    IF Abs(v) < p.landingSpeedSafe THEN "landed" ELSE "crashed"

\* landed / crashed from the recorded velocity
Classify(v, p) ==
    IF Abs(v) <= p.landingSpeedSafe THEN "landed" ELSE "crashed"

\* net acceleration of a turn with clamped, rounded burn b (down-positive)
NetAccel(b, p) ==
    LET aUp == IF p.maxBurn > 0 THEN RDiv(p.aThrustMax * b, p.maxBurn) ELSE 0
    IN  p.g - aUp

\* ascii.js decides ground contact from the projected altitude alone
AsciiContact(h1) == h1 <= 0

\* mutant: the exhausted tank is never noticed
AirborneStatusKept(fuelAfter, s) == s

\* the status after a step that stays airborne:
\* "if (fuel <= 0 && status === 'flying') status = 'out_of_fuel'"
AirborneStatus(fuelAfter, s) ==
    IF fuelAfter <= 0 /\ s = "flying" THEN "out_of_fuel" ELSE s

\* mutant: stepOnce without its early returns
AsciiCanStepAlways(st) == TRUE

\* the two early returns of stepOnce negated
AsciiCanStep(st) ==
    /\ ~(st.status # "flying" /\ st.status # "out_of_fuel")
    /\ ~(st.altitude <= 0)

\* stepOnce(burn) of ascii.js on state st: the state it leaves
AsciiStepOnce(st, burnArg) ==
    IF ~AsciiCanStep(st) THEN st
    ELSE
      LET p == DEFAULTS
          b == clamp(MathRound(burnArg), 0, p.maxBurn)
          fuelAfter == Max(0, st.fuel - b)
          a == NetAccel(b, p)
          dt == p.dt
          v1 == st.velocityDown + MulT(a, dt)
          h1 == st.altitude - MulT(st.velocityDown, dt) - HalfATT(a, dt)
          t1 == st.time + dt
      IN  IF AsciiContact(h1)
          THEN State(0, v1, fuelAfter, t1, Classify(v1, p))
          ELSE State(h1, v1, fuelAfter, t1,
                     AirborneStatus(fuelAfter, st.status))

----------------------------------------------------------------------------
(* LunarLander.js *)

NoTouchdown == NoSolve.res

\* Math.sqrt(B*B - 4*A*C) with A = 0.5*aNet, C = -h, in 1e-5 m/s; -1 when the
\* discriminant is negative.  The discriminant is formed on the 1e-4 grid
\* when it fits the integers, and on the 1e-2 grid for larger magnitudes.
SqrtDisc(B, aNet, h) ==
    IF Abs(B) <= 30000 /\ h <= 800000
    THEN LET disc == B * B + 2 * aNet * h
             s0 == ISqrt(disc)
         IN  IF disc < 0 THEN -1
             ELSE SqrtDigit(SqrtDigit(SqrtDigit(<<s0, disc - s0 * s0>>)))[1]
    ELSE LET Bd == RDiv(B, 10)
             hm == RDiv(h, 100)
             disc == Bd * Bd + 2 * aNet * hm
             s0 == ISqrt(disc)
         IN  IF disc < 0 THEN -1
             ELSE 10 * SqrtDigit(SqrtDigit(SqrtDigit(<<s0, disc - s0 * s0>>)))[1]

\* h / B in milliseconds, for h >= 0 and B > 0 (saturating far above any dt)
LinearTime(h, B) ==
    IF h \div B >= 1000000 THEN 1000000000
    ELSE (h \div B) * 1000 + RDiv((h % B) * 1000, B)

\* mutant: a root at the very end of the step is dropped
InStepOpen(t, dt) == t > 0 /\ t < dt

\* the roots kept by the filter t > 0 && t <= dt
InStep(t, dt) == t > 0 /\ t <= dt

\* mutant: the solver never finds a contact
interpolateTouchdownNone(h, vDown, aNet, dt) == NoTouchdown

\* interpolateTouchdown(h, vDown, aNet, dt)
interpolateTouchdown(h, vDown, aNet, dt) ==
    LET B == vDown
        tContact ==
          IF aNet = 0
          THEN IF B > 0 /\ InStep(LinearTime(h, B), dt)
               THEN LinearTime(h, B) ELSE -1
          ELSE LET sqrt == SqrtDisc(B, aNet, h)
                   t1 == RDivS(-B * 1000 + sqrt, aNet)
                   t2 == RDivS(-B * 1000 - sqrt, aNet)
                   candidates == {t \in {t1, t2} : InStep(t, dt)}
               IN  IF sqrt < 0 \/ candidates = {} THEN -1
                   ELSE CHOOSE t \in candidates : \A u \in candidates : t <= u
    IN  IF tContact < 0 THEN NoTouchdown
        ELSE [found |-> TRUE, tContact |-> tContact,
              vAtContact |-> vDown + MulT(aNet, tContact)]

\* canSubmit of LunarLander.js
canSubmit(st) ==
    (st.status = "flying" \/ st.status = "out_of_fuel") /\ st.altitude > 0

\* stepOnce() of LunarLander.js on state st with burn state burnSt and
\* parameters p: the state it leaves
ReactStepOnce(st, burnSt, p) ==
    IF ~canSubmit(st) THEN st
    ELSE IF st.altitude <= 0
    THEN [st EXCEPT !.status = Classify(st.velocityDown, p)]
    ELSE
      LET b == clamp(MathRound(burnSt), 0, p.maxBurn)
          fuelAfter == Max(0, st.fuel - b)
          a == NetAccel(b, p)
          dt == p.dt
          touchdown == interpolateTouchdown(st.altitude, st.velocityDown, a, dt)
          v1 == st.velocityDown + MulT(a, dt)
          h1 == st.altitude - MulT(st.velocityDown, dt) - HalfATT(a, dt)
      IN  IF touchdown.found
          THEN State(0, touchdown.vAtContact, fuelAfter,
                     st.time + touchdown.tContact,
                     Classify(touchdown.vAtContact, p))
          ELSE State(h1, v1, fuelAfter, st.time + dt,
                     AirborneStatus(fuelAfter, st.status))

----------------------------------------------------------------------------
(* LanderPhysics.js *)

\* mutant: update without the ground clamp
GroundStopMissing(st) == st

\* "if (this.altitude < 0) { this.altitude = 0; this.velocityDown = 0; }"
GroundStop(st) ==
    IF st.altitude < 0 THEN [st EXCEPT !.altitude = 0, !.velocityDown = 0]
    ELSE st

\* mutant: the acceleration applied with the up-positive sign
PhaseUpPositive(st, a, t) ==
    LET v == st.velocityDown - MulT(a, t)
    IN  [st EXCEPT !.velocityDown = v,
                   !.altitude = st.altitude - (MulT(v, t) - HalfATT(a, t))]

\* mutant: the altitude advanced with the updated velocity alone, without
\* the 0.5*a*t*t term that brings it back to the mid-step velocity
PhaseEndVelocity(st, a, t) ==
    LET v == st.velocityDown + MulT(a, t)
    IN  [st EXCEPT !.velocityDown = v,
                   !.altitude = st.altitude - MulT(v, t)]

\* one constant-acceleration phase of update: velocity first, then the
\* altitude from the updated velocity
Phase(st, a, t) ==
    LET v == st.velocityDown + MulT(a, t)
    IN  [st EXCEPT !.velocityDown = v,
                   !.altitude = st.altitude - (MulT(v, t) - HalfATT(a, t))]

\* mutant: the engine gives no acceleration
BurnAccelNone(possibleBurn) == 0

\* the upward acceleration of the burn phase
BurnAccel(possibleBurn) ==
    RDiv(possibleBurn * DEFAULTS.aThrustMax, DEFAULTS.maxBurn)

\* mutant: the burn is not limited by the fuel left
PossibleBurnUnlimited(burnClamped, f) == burnClamped

\* Math.min(burnClamped, this.fuel)
PossibleBurn(burnClamped, f) == Min(burnClamped, f)

\* LanderPhysics.update(dt, burn) on state st: the state it leaves
Update(st, dt, burnArg) ==
    LET burnClamped == clamp(burnArg, 0, DEFAULTS.maxBurn)
    IN  IF burnClamped <= 0 \/ st.fuel <= 0
        THEN GroundStop(Phase(st, DEFAULTS.g, dt))
        ELSE
          LET possibleBurn == PossibleBurn(burnClamped, st.fuel)
              tBurn == RDiv(dt * possibleBurn, burnClamped)
              tCoast == dt - tBurn
              aUp == BurnAccel(possibleBurn)
              aBurn == DEFAULTS.g - aUp
              burnt == [Phase(st, aBurn, tBurn) EXCEPT !.fuel = st.fuel - possibleBurn]
              coasted == IF tCoast > 0 /\ burnt.altitude > 0
                         THEN Phase(burnt, DEFAULTS.g, tCoast)
                         ELSE burnt
          IN  GroundStop(coasted)

----------------------------------------------------------------------------
(* Inputs *)

\* what the player types into the burn field, in tenths
InputBurns == {-500, 0, 545, 700, 2000, 2500}

\* the positions of the fuel0 slider explored (LunarLander.js)
TuneFuel0 == {0, 2000}

\* constructor arguments of LanderPhysics; -1 stands for an omitted field
PhysAltitudes == {-1, 0, 100, 10000}
PhysVelocities == {-1, 0, 319, 500}
PhysFuels == {-1, 0, 1000}

\* arguments of LanderPhysics.update
PhysDts == {1000, 10000}
PhysBurns == {-500, 0, 500, 2000, 2500}

\* mutant: an omitted field is left at 0
OrDefaultZero(x, d) == IF x = -1 THEN 0 ELSE x

\* "x ?? d"
OrDefault(x, d) == IF x = -1 THEN d ELSE x

----------------------------------------------------------------------------
(* Initial states *)

\* the most recent call that wrote the flight state, and the state it found
Call(op, dt, b) == [op |-> op, dt |-> dt, burn |-> b, pre |-> Cur]

InitAscii ==
    /\ impl = "ascii"
    /\ altitude = DEFAULTS.altitude0
    /\ velocityDown = DEFAULTS.velocity0
    /\ fuel = DEFAULTS.fuel0
    /\ time = 0
    /\ status = "flying"
    /\ burn = 0
    /\ params = DEFAULTS

\* LunarLander.js after the mount effect reset(true)
InitReact ==
    /\ impl = "react"
    /\ altitude = DEFAULTS.altitude0
    /\ velocityDown = DEFAULTS.velocity0
    /\ fuel = DEFAULTS.fuel0
    /\ time = 0
    /\ status = "flying"
    /\ burn = 0
    /\ params = DEFAULTS

\* new LanderPhysics({altitude, velocityDown, fuel}); call keeps the
\* argument object of the constructor
InitPhysics ==
    /\ impl = "physics"
    /\ \E h \in PhysAltitudes, v \in PhysVelocities, f \in PhysFuels :
          /\ altitude = OrDefault(h, DEFAULTS.altitude0)
          /\ velocityDown = OrDefault(v, DEFAULTS.velocity0)
          /\ fuel = OrDefault(f, DEFAULTS.fuel0)
          /\ call = [op |-> "new", dt |-> 0, burn |-> 0,
                     pre |-> State(h, v, f, 0, "none")]
    /\ time = 0
    /\ status = "none"
    /\ burn = 0
    /\ params = DEFAULTS

Init ==
    /\ \/ (InitAscii \/ InitReact) /\ call = NoCall
       \/ InitPhysics
    /\ updates = 0
    /\ td = NoSolve

----------------------------------------------------------------------------
(* Actions *)

SetFlight(r) ==
    /\ altitude' = r.altitude
    /\ velocityDown' = r.velocityDown
    /\ fuel' = r.fuel
    /\ time' = r.time
    /\ status' = r.status

\* the player edits the burn field of ascii.js (any number)
AsciiInput ==
    /\ impl = "ascii"
    /\ \E x \in InputBurns : burn' = x
    /\ UNCHANGED <<impl, altitude, velocityDown, fuel, time, status, params,
                   call, updates, td>>

\* hintBtn click of ascii.js
AsciiHint ==
    /\ impl = "ascii"
    /\ burn' = quickHint(altitude, velocityDown, DEFAULTS.maxBurn)
    /\ UNCHANGED <<impl, altitude, velocityDown, fuel, time, status, params,
                   call, updates, td>>

\* commit click, Enter key or auto-step timer of ascii.js, explored while
\* the elapsed time is below maxTime
AsciiStepWithin(maxTime) ==
    /\ impl = "ascii"
    /\ time < maxTime
    /\ SetFlight(AsciiStepOnce(Cur, burn))
    /\ call' = Call("stepOnce", DEFAULTS.dt, burn)
    /\ UNCHANGED <<impl, burn, params, updates, td>>

AsciiStep == AsciiStepWithin(MaxSteps * DEFAULTS.dt)

\* reset() of ascii.js
AsciiReset ==
    /\ impl = "ascii"
    /\ SetFlight(State(DEFAULTS.altitude0, DEFAULTS.velocity0, DEFAULTS.fuel0,
                       0, "flying"))
    /\ burn' = 0
    /\ call' = Call("reset", 0, 0)
    /\ UNCHANGED <<impl, params, updates, td>>

\* onChange of the burn input of LunarLander.js (disabled unless flying)
ReactInput ==
    /\ impl = "react"
    /\ status = "flying"
    /\ \E x \in InputBurns : burn' = clamp(ParseInt(x), 0, params.maxBurn)
    /\ UNCHANGED <<impl, altitude, velocityDown, fuel, time, status, params,
                   call, updates, td>>

\* Hint button of LunarLander.js (disabled unless flying)
ReactHint ==
    /\ impl = "react"
    /\ status = "flying"
    /\ burn' = quickHint(altitude, velocityDown, params.maxBurn)
    /\ UNCHANGED <<impl, altitude, velocityDown, fuel, time, status, params,
                   call, updates, td>>

\* Commit Turn click or Enter key of LunarLander.js
ReactStepWithin(maxTime) ==
    /\ impl = "react"
    /\ time < maxTime
    /\ SetFlight(ReactStepOnce(Cur, burn, params))
    /\ call' = Call("stepOnce", params.dt, burn)
    /\ UNCHANGED <<impl, burn, params, updates, td>>

ReactStep == ReactStepWithin(MaxSteps * DEFAULTS.dt)

\* the fuel0 slider of the tuning panel
ReactTune ==
    /\ impl = "react"
    /\ \E f \in TuneFuel0 : params' = [params EXCEPT !.fuel0 = f]
    /\ UNCHANGED <<impl, altitude, velocityDown, fuel, time, status, burn,
                   call, updates, td>>

\* reset(allDefaults) of LunarLander.js
ReactReset ==
    /\ impl = "react"
    /\ \E allDefaults \in BOOLEAN :
         LET p == IF allDefaults THEN DEFAULTS ELSE params
         IN  /\ params' = p
             /\ SetFlight(State(p.altitude0, p.velocity0, p.fuel0, 0, "flying"))
    /\ burn' = 0
    /\ call' = Call("reset", 0, 0)
    /\ UNCHANGED <<impl, updates, td>>

\* lander.update(dt, burn)
PhysicsUpdate ==
    /\ impl = "physics"
    /\ updates < MaxUpdates
    /\ \E dt \in PhysDts, b \in PhysBurns :
         /\ SetFlight(Update(Cur, dt, b))
         /\ call' = Call("update", dt, b)
    /\ updates' = updates + 1
    /\ UNCHANGED <<impl, burn, params, td>>

Next ==
    \/ AsciiInput
    \/ AsciiHint
    \/ AsciiStep
    \/ AsciiReset
    \/ ReactInput
    \/ ReactHint
    \/ ReactStep
    \/ ReactTune
    \/ ReactReset
    \/ PhysicsUpdate

Spec == Init /\ [][Next]_vars

----------------------------------------------------------------------------
(* The burn held at maxBurn on every turn *)

InitHold ==
    /\ (InitAscii \/ InitReact)
    /\ call = NoCall
    /\ updates = 0
    /\ td = NoSolve

HoldBurn ==
    /\ burn # DEFAULTS.maxBurn
    /\ burn' = DEFAULTS.maxBurn
    /\ UNCHANGED <<impl, altitude, velocityDown, fuel, time, status, params,
                   call, updates, td>>

HoldAsciiStep ==
    /\ burn = DEFAULTS.maxBurn
    /\ AsciiStepWithin(MaxHoldSteps * DEFAULTS.dt)

HoldReactStep ==
    /\ burn = DEFAULTS.maxBurn
    /\ ReactStepWithin(MaxHoldSteps * DEFAULTS.dt)

NextHold == HoldBurn \/ HoldAsciiStep \/ HoldReactStep

SpecHold == InitHold /\ [][NextHold]_vars

----------------------------------------------------------------------------
(* interpolateTouchdown on its own *)

\* arguments: altitudes above ground (the call site passes altitude > 0),
\* velocities, net accelerations g - aUp, and whole-second steps
SolverAltitudes == {50, 1000, 10000, 17600, 50000}
SolverVelocities == {-1000, 0, 500, 1000, 5000}
SolverAccels == {-438, -138, -3, 0, 3, 162}
SolverDts == {10000, 20000}

InitSolver ==
    /\ impl = "solver"
    /\ altitude = 0
    /\ velocityDown = 0
    /\ fuel = 0
    /\ time = 0
    /\ status = "none"
    /\ burn = 0
    /\ params = DEFAULTS
    /\ call = NoCall
    /\ updates = 0
    /\ \E h \in SolverAltitudes, v \in SolverVelocities,
          a \in SolverAccels, dt \in SolverDts :
          td = Solve(h, v, a, dt, FALSE, NoTouchdown)

CallSolver ==
    /\ impl = "solver"
    /\ ~td.called
    /\ td' = Solve(td.h, td.v, td.a, td.dt, TRUE,
                   interpolateTouchdown(td.h, td.v, td.a, td.dt))
    /\ UNCHANGED <<impl, altitude, velocityDown, fuel, time, status, burn,
                   params, call, updates>>

NextSolver == CallSolver

SpecSolver == InitSolver /\ [][NextSolver]_vars

----------------------------------------------------------------------------
(* Claims *)

Games == {"ascii", "react"}

\* the last call was a step of the turn-based game (stepOnce)
Stepped == impl \in Games /\ call.op = "stepOnce"

\* the last call was LanderPhysics.update
Updated == impl = "physics" /\ call.op = "update"

\* the clamped, rounded burn and the net acceleration of the last stepOnce
StepBurn == clamp(MathRound(call.burn), 0, params.maxBurn)
StepAccel == NetAccel(StepBurn, params)

\* C1: after every step call (LanderPhysics.update and both stepOnce), with
\* any burn, from a session that started with altitude >= 0 and fuel >= 0,
\* altitude >= 0 and fuel >= 0.
C1_NonNegative == altitude >= 0 /\ fuel >= 0

\* C1 witness: an update that carried the lander below ground level and used
\* up the fuel it had
C1_Witness ==
    /\ Updated
    /\ call.pre.altitude > 0 /\ altitude = 0
    /\ call.pre.fuel > 0 /\ fuel = 0

\* C2: with the default parameters and the burn held at maxBurn on every
\* turn, stepOnce reaches landed or crashed within at most 50 steps.
C2_TerminalWithin50Steps ==
    (impl \in Games /\ time >= 50 * DEFAULTS.dt) => status \in Terminal

\* C3: once status is landed or crashed, a further stepOnce, with any burn,
\* leaves altitude, velocityDown, fuel and status unchanged.
C3_TerminalIdempotent ==
    (Stepped /\ call.pre.status \in Terminal) =>
        /\ altitude = call.pre.altitude
        /\ velocityDown = call.pre.velocityDown
        /\ fuel = call.pre.fuel
        /\ status = call.pre.status

\* C3 witness: stepOnce was called with a positive burn on a landed lander
C3_Witness ==
    /\ Stepped
    /\ call.pre.status = "landed"
    /\ call.burn > 0

\* C4 as stated: LanderPhysics.update with fuel = 0 and altitude > 0, for
\* every requested burn, gives velocityDown after = velocityDown before
\* + g*dt (strictly greater than before) and leaves fuel at 0.
C4_GravityOnlyWithoutFuel ==
    (Updated /\ call.pre.fuel = 0 /\ call.pre.altitude > 0) =>
        /\ velocityDown = call.pre.velocityDown + MulT(DEFAULTS.g, call.dt)
        /\ velocityDown > call.pre.velocityDown
        /\ fuel = 0

\* C4 amended: the same, for the updates that leave the lander above the
\* ground (altitude after > 0).
C4_GravityOnlyWithoutFuelAirborne ==
    (Updated /\ call.pre.fuel = 0 /\ call.pre.altitude > 0 /\ altitude > 0) =>
        /\ velocityDown = call.pre.velocityDown + MulT(DEFAULTS.g, call.dt)
        /\ velocityDown > call.pre.velocityDown
        /\ fuel = 0

\* C4 witness: update(dt, maxBurn) with an empty tank that stays airborne
C4_Witness ==
    /\ Updated
    /\ call.pre.fuel = 0 /\ call.pre.altitude > 0
    /\ call.burn = DEFAULTS.maxBurn
    /\ altitude > 0

\* C5: once status is out_of_fuel, every later stepOnce uses a net
\* acceleration equal to gravity alone, whatever the burn: over the time the
\* step advanced, velocityDown grew by g times that time.
C5_GravityOnlyOnceOutOfFuel ==
    (Stepped /\ call.pre.status = "out_of_fuel") =>
        velocityDown = call.pre.velocityDown
                         + MulT(params.g, time - call.pre.time)

\* a stepOnce that started airborne and ended at altitude 0
GroundContact ==
    /\ Stepped
    /\ call.pre.status \notin Terminal
    /\ call.pre.altitude > 0
    /\ altitude = 0

\* C6: whenever a step ends in ground contact, status is landed if and only
\* if |velocityDown| <= landingSpeedSafe, and crashed otherwise; a contact
\* velocity exactly equal to landingSpeedSafe yields landed.
C6_ContactClassification ==
    GroundContact =>
        IF Abs(velocityDown) <= params.landingSpeedSafe
        THEN status = "landed"
        ELSE status = "crashed"

\* C6 witness: ground contact at exactly landingSpeedSafe
C6_Witness ==
    /\ GroundContact
    /\ Abs(velocityDown) = params.landingSpeedSafe

\* The constant-acceleration trajectory h - v*t - 0.5*a*t^2 that starts at
\* h > 0 reaches 0 at some t in (0, dt]: either it is at or below 0 at dt, or
\* it dips to 0 before its turning point v/(-a) < dt (a < 0 < v, and
\* v^2 + 2*a*h >= 0) and comes back up.  Exact for dt in whole seconds.
Crosses(h, v, a, dt) ==
    \/ h - MulT(v, dt) - HalfATT(a, dt) <= 0
    \/ /\ a < 0 /\ v > 0
       /\ v * 1000 < (-a) * dt
       /\ h <= 1000000
       /\ v * v + 2 * a * h >= 0

\* C7: a stepOnce started with altitude > 0 whose trajectory reaches
\* altitude 0 at some time in (0, dt] ends in ground contact (altitude 0,
\* status landed or crashed), also when the altitude computed for the end of
\* the step is positive.
C7_ContactWithinStepDetected ==
    ( /\ Stepped
      /\ call.pre.status \notin Terminal
      /\ call.pre.altitude > 0
      /\ Crosses(call.pre.altitude, call.pre.velocityDown, StepAccel, call.dt) )
    => (altitude = 0 /\ status \in Terminal)

\* slack, in centimetres, of a trajectory evaluated at a contact time that
\* is rounded to the millisecond
ContactTol(v) == Abs(v) \div 1000 + 5

\* the time the last stepOnce advanced
StepTime == time - call.pre.time

\* C8: a step that ends in ground contact at contact time tc leaves
\* altitude = 0, velocityDown = the velocity at the start of the step
\* + netAccel*tc (neither the end-of-step velocity nor 0) and advances the
\* elapsed time by tc, the time at which the trajectory of the step is at
\* altitude 0.  For LanderPhysics.update (altitude and velocity), a coasting
\* update that reaches the ground leaves the velocity of the fall from
\* call.pre.altitude: sqrt(v^2 + 2*g*h).
C8_FinalizedAtContactPoint ==
    /\ GroundContact =>
         /\ altitude = 0
         /\ velocityDown = call.pre.velocityDown + MulT(StepAccel, StepTime)
         /\ Abs(call.pre.altitude - MulT(call.pre.velocityDown, StepTime)
                  - HalfATT(StepAccel, StepTime)) <= ContactTol(velocityDown)
    /\ ( /\ Updated
         /\ call.pre.altitude > 0 /\ altitude = 0
         /\ call.pre.velocityDown >= 0
         /\ (call.pre.fuel = 0 \/ call.burn <= 0) ) =>
         LET vc == ISqrt(call.pre.velocityDown * call.pre.velocityDown
                           + 2 * DEFAULTS.g * call.pre.altitude)
         IN  velocityDown \in {vc, vc + 1}

\* C9: interpolateTouchdown(h, v, a, dt) returns the smallest t in (0, dt]
\* with 0.5*a*t^2 + v*t - h = 0 together with vAtContact = v + a*t, and
\* returns null exactly when there is no such t; with a = 0 and v > 0 it
\* returns t = h/v when 0 < h/v <= dt (h = 100, v = 10, a = 0, dt = 20 gives
\* t = 10), and null when v <= 0.  A returned t is a root to the millisecond
\* it is rounded to, and it is the smallest when it is not after the
\* turning point v/(-a) of a trajectory that comes back up.
C9_SmallestRootInStep ==
    td.called =>
      LET t == td.res.tContact
      IN  /\ td.res.found <=> Crosses(td.h, td.v, td.a, td.dt)
          /\ td.res.found =>
               /\ t > 0 /\ t <= td.dt
               /\ Abs(td.h - MulT(td.v, t) - HalfATT(td.a, t))
                    <= ContactTol(td.res.vAtContact)
               /\ td.res.vAtContact = td.v + MulT(td.a, t)
               /\ td.a < 0 => t * (-td.a) <= td.v * 1000 + (-td.a)
               /\ td.a = 0 => Abs(t * td.v - td.h * 1000) <= td.v
          /\ (td.h = 10000 /\ td.v = 1000 /\ td.a = 0 /\ td.dt = 20000) =>
               (td.res.found /\ t = 10000)
          /\ (td.a = 0 /\ td.v <= 0) => ~td.res.found

\* C9 witness: the solver was called on the degenerate example of the claim
\* and returned a contact
C9_Witness ==
    /\ td.called /\ td.res.found
    /\ td.h = 10000 /\ td.v = 1000 /\ td.a = 0 /\ td.dt = 20000

\* the clamped burn of the last update, and the change of velocityDown a
\* whole step at that burn would make
UpdateBurn == clamp(call.burn, 0, DEFAULTS.maxBurn)
FullThrustChange ==
    MulT(DEFAULTS.g - RDiv(DEFAULTS.aThrustMax * UpdateBurn, DEFAULTS.maxBurn),
         call.dt)
GravityOnlyChange == MulT(DEFAULTS.g, call.dt)

C11_CoastStep ==
    ( /\ Stepped \/ Updated
      /\ call.burn = 0
      /\ call.pre.altitude > 0
      /\ altitude > 0 ) =>
        /\ velocityDown = call.pre.velocityDown + MulT(params.g, call.dt)
        /\ altitude = call.pre.altitude - MulT(call.pre.velocityDown, call.dt)
                        - HalfATT(params.g, call.dt)
        /\ fuel = call.pre.fuel

\* C11 witness: update(1, 0) on the lander built with the default values
\* (the case of the test 'gravity increases downward velocity')
C11_Witness ==
    /\ Updated
    /\ call.burn = 0 /\ call.dt = 1000
    /\ call.pre.altitude = DEFAULTS.altitude0
    /\ call.pre.velocityDown = DEFAULTS.velocity0
    /\ call.pre.fuel = DEFAULTS.fuel0
    /\ altitude > 0


\* the status changes a stepOnce may make
StatusMoves ==
    {<<"flying", "flying">>, <<"flying", "out_of_fuel">>,
     <<"flying", "landed">>, <<"flying", "crashed">>,
     <<"out_of_fuel", "out_of_fuel">>,
     <<"out_of_fuel", "landed">>, <<"out_of_fuel", "crashed">>,
     <<"landed", "landed">>, <<"crashed", "crashed">>}

\* the last stepOnce moved status from flying to out_of_fuel
BecameOutOfFuel ==
    Stepped /\ call.pre.status = "flying" /\ status = "out_of_fuel"

\* C12 as stated: under any sequence of stepOnce calls between two resets,
\* status changes only along flying -> out_of_fuel, flying -> landed|crashed
\* and out_of_fuel -> landed|crashed, and the move flying -> out_of_fuel
\* happens on exactly the step on which fuel reaches 0 (it was positive
\* before the step and is 0 after it) while the lander stays airborne.
C12_StatusTransitions ==
    Stepped =>
        /\ <<call.pre.status, status>> \in StatusMoves
        /\ BecameOutOfFuel <=>
             /\ call.pre.status = "flying"
             /\ call.pre.fuel > 0 /\ fuel = 0
             /\ altitude > 0

\* C12 amended: the same moves, and the move flying -> out_of_fuel happens
\* on exactly the step that starts flying and ends airborne with fuel = 0,
\* whether the fuel fell to 0 on that step or the session was created with
\* no fuel.
C12_StatusTransitionsFuelZero ==
    Stepped =>
        /\ <<call.pre.status, status>> \in StatusMoves
        /\ BecameOutOfFuel <=>
             /\ call.pre.status = "flying"
             /\ fuel = 0
             /\ altitude > 0

\* C12 witness: a step that burnt the last fuel while staying airborne and
\* moved status from flying to out_of_fuel
C12_Witness ==
    /\ BecameOutOfFuel
    /\ call.pre.fuel > 0 /\ fuel = 0
    /\ altitude > 0


\* C13: across any sequence of step calls between two resets, fuel never
\* increases from one call to the next (LanderPhysics.update, both
\* stepOnce) and elapsed time never decreases (both stepOnce), for every
\* burn value.
C13_FuelAndTimeMonotone ==
    /\ (Stepped \/ Updated) => fuel <= call.pre.fuel
    /\ Stepped => time >= call.pre.time

\* C13 witness: a stepOnce with a negative burn on a lander that has already
\* burnt fuel
C13_Witness ==
    /\ Stepped
    /\ call.burn < 0
    /\ call.pre.fuel > 0 /\ call.pre.fuel < DEFAULTS.fuel0
    /\ time > call.pre.time


\* the bound of [0, maxBurn] nearest to the burn of the last call
NearestBound == clamp(call.burn, 0, DEFAULTS.maxBurn)

\* C14: a requested burn outside [0, maxBurn] is never rejected and acts
\* exactly as the nearest bound: from the same state, a step with
\* burn > maxBurn leaves the state a step with burn = maxBurn leaves, and a
\* step with burn < 0 leaves the state a step with burn = 0 leaves.  The
\* burn field of LunarLander.js holds the typed value already clamped.
C14_ClampedToNearestBound ==
    /\ (Updated /\ call.burn \notin 0..DEFAULTS.maxBurn) =>
          Cur = Update(call.pre, call.dt, NearestBound)
    /\ (Stepped /\ impl = "ascii" /\ call.burn \notin 0..DEFAULTS.maxBurn) =>
          Cur = AsciiStepOnce(call.pre, NearestBound)
    /\ impl = "react" =>
          /\ burn \in 0..params.maxBurn
          /\ Stepped => Cur = ReactStepOnce(call.pre, NearestBound, params)

\* C14 witness: update with a burn above maxBurn on a lander with fuel, which
\* stays airborne
C14_Witness ==
    /\ Updated
    /\ call.burn > DEFAULTS.maxBurn
    /\ call.pre.fuel > 0 /\ fuel < call.pre.fuel
    /\ altitude > 0


\* C15: for LanderPhysics.update with burn = maxBurn, fuel >= maxBurn and a
\* step that stays airborne: fuel after < fuel before and velocityDown after
\* < velocityDown before (thrust subtracts from velocityDown, since
\* aThrustMax > g); started from velocityDown = 0, velocityDown after is
\* strictly less than g*dt.
C15_FullBurnSlowsDescent ==
    ( /\ Updated
      /\ call.burn = DEFAULTS.maxBurn
      /\ call.pre.fuel >= DEFAULTS.maxBurn
      /\ call.pre.altitude > 0 /\ altitude > 0 ) =>
        /\ fuel < call.pre.fuel
        /\ velocityDown < call.pre.velocityDown
        /\ call.pre.velocityDown = 0 =>
              velocityDown < MulT(DEFAULTS.g, call.dt)

\* C15 witness: update(dt, maxBurn) on a lander at rest above the ground
\* with a full tank, which stays airborne
C15_Witness ==
    /\ Updated
    /\ call.burn = DEFAULTS.maxBurn
    /\ call.pre.fuel = DEFAULTS.fuel0
    /\ call.pre.velocityDown = 0
    /\ call.pre.altitude > 0 /\ altitude > 0


\* C16: after any LanderPhysics.update call whose integration would carry
\* the lander to or below ground level (the altitude it leaves is 0), the
\* lander is stopped at the ground: altitude >= 0 (clamped to 0) and
\* velocityDown >= 0.
C16_StoppedAtGround ==
    Updated =>
        /\ altitude >= 0
        /\ altitude = 0 => velocityDown >= 0


\* the lander was built by the constructor and not updated since
Constructed == impl = "physics" /\ call.op = "new"

\* C17: session creation yields the initial state from the given values or
\* the built-in defaults: new LanderPhysics() with omitted fields has
\* altitude 1500, velocityDown 50, fuel 1200 (and a given field its given
\* value), and reset() of ascii.js / LunarLander.js, called from any
\* reachable state, leaves altitude, velocity and fuel at the initial values
\* of the parameters in force, time 0 and status flying.
C17_SessionCreation ==
    /\ [](Constructed =>
            /\ altitude = IF call.pre.altitude = -1 THEN 150000
                          ELSE call.pre.altitude
            /\ velocityDown = IF call.pre.velocityDown = -1 THEN 5000
                              ELSE call.pre.velocityDown
            /\ fuel = IF call.pre.fuel = -1 THEN 12000 ELSE call.pre.fuel)
    /\ [][(AsciiReset \/ ReactReset) =>
            /\ altitude' = params'.altitude0
            /\ velocityDown' = params'.velocity0
            /\ fuel' = params'.fuel0
            /\ time' = 0
            /\ status' = "flying"
            /\ impl = "ascii" => params' = DEFAULTS]_vars

\* C17 witness: reset() was called on a crashed lander that had burnt fuel
C17_Witness ==
    /\ impl \in Games
    /\ call.op = "reset"
    /\ call.pre.status = "crashed"
    /\ call.pre.fuel < fuel
    /\ time = 0 /\ status = "flying"


\* C18: a step call made when altitude is already <= 0 is a no-op on the
\* physical state: LanderPhysics.update called with altitude = 0, for every
\* burn value and every fuel level, leaves altitude 0 and velocityDown and
\* fuel unchanged (a grounded lander never lifts off again and never burns
\* fuel).
C18_GroundedUpdateNoOp ==
    (Updated /\ call.pre.altitude = 0) =>
        /\ altitude = 0
        /\ velocityDown = call.pre.velocityDown
        /\ fuel = call.pre.fuel


\* the clamped burn of the last step call
CallBurn == IF Updated THEN UpdateBurn ELSE StepBurn

\* the velocity a step takes off when full thrust at the clamped burn acts
\* for the fraction fuel/clampedBurn of dt:
\* (aThrustMax*clampedBurn/maxBurn) * dt * (fuel/clampedBurn)
\*   = (aThrustMax*fuel/maxBurn) * dt
PartialThrustChange ==
    MulT(RDiv(params.aThrustMax * call.pre.fuel, params.maxBurn), call.dt)

\* C19: in every step operation (LanderPhysics.update, stepOnce of ascii.js
\* and of LunarLander.js), when 0 < fuel < clamped burn and the step does not
\* reach the ground, thrust acts at the full requested acceleration for
\* exactly the fraction fuel/clampedBurn of dt and gravity alone for the
\* rest: velocityDown after = velocityDown before + g*dt
\* - (aThrustMax*clampedBurn/maxBurn)*dt*(fuel/clampedBurn), to the rounding
\* of the grid, and fuel after = 0.
C19_PartialStepBurn ==
    ( /\ Stepped \/ Updated
      /\ 0 < call.pre.fuel /\ call.pre.fuel < CallBurn
      /\ call.pre.altitude > 0 /\ altitude > 0 ) =>
        /\ Abs(velocityDown - (call.pre.velocityDown + MulT(params.g, call.dt)
                                 - PartialThrustChange)) <= 1
        /\ fuel = 0


\* C20: in the turn-based game (stepOnce of LunarLander.js and of ascii.js),
\* in every state reached after at least one step since the last reset:
\* status is landed or crashed if and only if altitude = 0 (no state has
\* altitude <= 0 with status flying or out_of_fuel, and none is terminal with
\* altitude > 0); status out_of_fuel implies fuel = 0; and status flying
\* implies fuel > 0.
C20_StatusMatchesState ==
    Stepped =>
        /\ status \in Terminal <=> altitude = 0
        /\ altitude <= 0 => status \notin {"flying", "out_of_fuel"}
        /\ status = "out_of_fuel" => fuel = 0
        /\ status = "flying" => fuel > 0

\* C20 witness: a lander that ran out of fuel in flight and then reached the
\* ground
C20_Witness ==
    /\ Stepped
    /\ call.pre.status = "out_of_fuel" /\ call.pre.altitude > 0
    /\ status \in Terminal /\ altitude = 0 /\ fuel = 0

====
